---- MODULE Spec2Model ----
(***************************************************************************)
(* Model of src/style/color/color.rs (crossterm): the TerminalColor facade *)
(* over a platform colour backend, the shared Rc<Mutex<ScreenManager>> it  *)
(* hands to that backend, and the TERM based colour-count probe.           *)
(*                                                                         *)
(* The facade (new, color, set_fg, set_bg, reset,                          *)
(* get_available_color_count) is translated from color.rs.  The backends   *)
(* (AnsiColor, WinApiColor), functions::get_module, Color::from and the    *)
(* ScreenManager live in other files of the crate; they are modelled from  *)
(* the specification and marked so in the model map.                       *)
(***************************************************************************)
EXTENDS Naturals, Sequences, FiniteSets, TLC

(* ------------------------------ bounds --------------------------------- *)

\* Facade styling calls (set_fg / set_bg / reset) made in one run.
MaxCalls == 3

\* Whitespace characters put before and after a colour name.
MaxPad == 1

(* ---------------------------- constants -------------------------------- *)

\* color.rs:118 and color.rs:121
BaseTier == 8

\* color.rs:116
ExtendedTier == 256

(* ------------------------------ text ----------------------------------- *)

\* A byte of an OsString that is not part of any valid Unicode encoding.
BadByte == "<FF>"

\* The literal "256color" of color.rs:115, one character per element.
Marker == <<"2", "5", "6", "c", "o", "l", "o", "r">>

Str_xterm == <<"x", "t", "e", "r", "m">>

Str_dash == <<"-">>

\* The values the TERM environment variable takes in the model.
TermValues ==
    { [some |-> FALSE, val |-> <<>>],                                   \* unset
      [some |-> TRUE,  val |-> <<>>],                                   \* empty
      [some |-> TRUE,  val |-> Str_xterm],
      [some |-> TRUE,  val |-> Str_xterm \o Str_dash \o Marker],
      [some |-> TRUE,  val |-> Marker \o Str_dash \o <<"b", "c", "e">>],
      [some |-> TRUE,  val |-> Str_xterm \o Str_dash \o SubSeq(Marker, 1, 7)],
      [some |-> TRUE,  val |-> <<BadByte>> \o Str_xterm],
      [some |-> TRUE,  val |-> Str_xterm \o Str_dash \o Marker \o <<BadByte>>] }

\* OsStr::to_str: Some(text) when the bytes are valid Unicode, else None.
to_str(os) ==
    IF \E i \in 1..Len(os) : os[i] = BadByte
    THEN [some |-> FALSE, val |-> <<>>]
    ELSE [some |-> TRUE, val |-> os]

\* Option::unwrap_or
unwrap_or(opt, dflt) == IF opt.some THEN opt.val ELSE dflt

\* str::contains(pattern): pattern occurs as a contiguous substring.
contains(s, pat) ==
    \E i \in 0..Len(s) :
        /\ i + Len(pat) <= Len(s)
        /\ SubSeq(s, i + 1, i + Len(pat)) = pat

\* Variant of color_count: the marker must start the value (starts_with).
color_count_prefix(term) ==
    IF term.some
    THEN IF LET s == unwrap_or(to_str(term.val), <<>>)
            IN  Len(s) >= Len(Marker) /\ SubSeq(s, 1, Len(Marker)) = Marker
         THEN ExtendedTier
         ELSE BaseTier
    ELSE BaseTier

\* color.rs:113-122, the value inside Ok(..): the tier for a TERM value.
color_count(term) ==
    IF term.some
    THEN IF contains(unwrap_or(to_str(term.val), <<>>), Marker)
         THEN ExtendedTier
         ELSE BaseTier
    ELSE BaseTier

(* --------------------------- colour model ------------------------------ *)

\* Named variants of style::Color used by the model.
NamedColors == {"Red", "Blue"}

\* The variant unrecognised text maps to.
FallbackColor == "White"

Colors == NamedColors \cup {FallbackColor}

\* The terminal's own colour, in force before any request and after a reset.
DefaultColor == "Default"

Whitespace == {" ", "\t"}

UpperToLower ==
    ("R" :> "r") @@ ("E" :> "e") @@ ("D" :> "d") @@
    ("B" :> "b") @@ ("L" :> "l") @@ ("U" :> "u") @@ ("X" :> "x")

\* char::to_lowercase on one character.
lower_char(c) == IF c \in DOMAIN UpperToLower THEN UpperToLower[c] ELSE c

\* str::to_lowercase
to_lowercase(s) == [i \in 1..Len(s) |-> lower_char(s[i])]

RECURSIVE trim_start(_)
trim_start(s) ==
    IF s # <<>> /\ Head(s) \in Whitespace THEN trim_start(Tail(s)) ELSE s

RECURSIVE trim_end(_)
trim_end(s) ==
    IF s # <<>> /\ s[Len(s)] \in Whitespace
    THEN trim_end(SubSeq(s, 1, Len(s) - 1))
    ELSE s

\* str::trim
trim(s) == trim_end(trim_start(s))

\* Canonical (lower-case) spelling of each named colour.
ColorName ==
    [c \in NamedColors |->
        IF c = "Red" THEN <<"r", "e", "d">> ELSE <<"b", "l", "u", "e">>]

\* Variant of from_text: the text is lower-cased but not trimmed.
from_text_untrimmed(text) ==
    LET s == to_lowercase(text)
    IN  IF \E c \in NamedColors : ColorName[c] = s
        THEN CHOOSE c \in NamedColors : ColorName[c] = s
        ELSE FallbackColor

\* Color::from(&str): case-insensitive, whitespace-tolerant and total.
from_text(text) ==
    LET s == to_lowercase(trim(text))
    IN  IF \E c \in NamedColors : ColorName[c] = s
        THEN CHOOSE c \in NamedColors : ColorName[c] = s
        ELSE FallbackColor

\* How a caller produces the Color argument of a styling call: a named
\* constant (Color::Red) or a parse (Color::from("Red")).
NoArg == [kind |-> "none", color |-> "", text |-> <<>>]

ConstArg(c) == [kind |-> "const", color |-> c, text |-> <<>>]

TextArg(t) == [kind |-> "text", color |-> "", text |-> t]

\* Texts the model's callers pass to Color::from.
CallTexts ==
    { <<"R", "e", "d">>,                   \* the doc example of color.rs:48
      <<" ", "r", "E", "D">>,
      <<"b", "L", "u", "e", "\t">>,
      <<"r", "e", "x">> }                  \* not a colour name

ColorArgs == {ConstArg(c) : c \in NamedColors} \cup {TextArg(t) : t \in CallTexts}

\* The Color value the callee receives.
ColorOf(a) == IF a.kind = "const" THEN a.color ELSE from_text(a.text)

(* ------------------------------ state ---------------------------------- *)

VARIABLES
    platform,     \* cfg(target_os): "windows" or "other"
    nativeAvail,  \* the native console attribute API is usable at run time
    ansiAvail,    \* the escape-sequence backend is usable at run time
    TERM,         \* env::var_os("TERM"): [some, val]
    facade,       \* the TerminalColor: [constructed, color, screen_manager]
    selections,   \* how many times a backend was selected
    sm,           \* the ScreenManagers behind the Rc<Mutex<..>> handles
    pc,           \* position of the one thread of control inside a call
    frame,        \* arguments the backend operation in progress received
    arg,          \* how the caller produced the colour of the call in progress
    calls,        \* facade operations invoked so far, in order
    bcalls,       \* backend operations invoked so far, in order
    returned,     \* facade operations that have returned
    lastOk        \* whether the last attribute change succeeded on the platform

vars ==
    << platform, nativeAvail, ansiAvail, TERM, facade, selections, sm, pc,
       frame, arg, calls, bcalls, returned, lastOk >>

env == << platform, nativeAvail, ansiAvail, TERM >>

\* Handles to distinct ScreenManagers; a Context carries one of them.
Handles == {1, 2}

Contexts == {[screen_manager |-> h] : h \in Handles}

Backends == {"Ansi", "WinApi"}

NoFacade == [constructed |-> FALSE, color |-> "None", screen_manager |-> 0]

NoFrame == [op |-> "none", color |-> "", handle |-> 0, backend |-> "None"]

NoOut == [kind |-> "none", seq |-> <<>>, word |-> 0]

\* A ScreenManager nobody has touched: unlocked, terminal at its defaults.
InitScreen ==
    [ lock     |-> FALSE,           \* the Mutex is held
      fg       |-> DefaultColor,    \* foreground last requested of the terminal
      bg       |-> DefaultColor,    \* background last requested of the terminal
      out      |-> NoOut,           \* last request issued through the manager
      acquired |-> 0,               \* lock acquisitions so far
      released |-> 0,               \* lock releases so far
      muts     |-> <<>> ]           \* attribute mutations so far, in order

(* ----------------------------- backends -------------------------------- *)

\* Index of a colour in the terminal palette, as written in an escape sequence.
AnsiIndex == ("Red" :> "9") @@ ("Blue" :> "12") @@ ("White" :> "15")

\* Console attribute bits of a colour (foreground position).
WinApiBits == ("Red" :> 12) @@ ("Blue" :> 9) @@ ("White" :> 15)

\* The console's original attribute word: grey on black.
OriginalFgBits == 7

OriginalBgBits == 0

BgShift == 16

\* AnsiColor: the control sequence of one operation (parameters of CSI .. m).
ansi_request(op, color) ==
    [ kind |-> "ansi",
      seq  |-> CASE op = "set_fg" -> <<"38", "5", AnsiIndex[color]>>
                 [] op = "set_bg" -> <<"48", "5", AnsiIndex[color]>>
                 [] OTHER         -> <<"0">>,
      word |-> 0 ]

fg_bits(c) == IF c = DefaultColor THEN OriginalFgBits ELSE WinApiBits[c]

bg_bits(c) == IF c = DefaultColor THEN OriginalBgBits ELSE WinApiBits[c]

\* WinApiColor: the attribute word of one operation; a colour change keeps
\* the other half of the console's current word, a reset restores the original.
winapi_request(op, color, screen) ==
    [ kind |-> "winapi",
      seq  |-> <<>>,
      word |-> CASE op = "set_fg" ->
                        WinApiBits[color] + BgShift * bg_bits(screen.bg)
                 [] op = "set_bg" ->
                        fg_bits(screen.fg) + BgShift * WinApiBits[color]
                 [] OTHER -> OriginalFgBits + BgShift * OriginalBgBits ]

\* ITerminalColor dispatch: what the selected backend asks of the manager.
backend_request(backend, op, color, screen) ==
    IF backend = "Ansi"
    THEN ansi_request(op, color)
    ELSE winapi_request(op, color, screen)

color_of_index(i) == CHOOSE c \in Colors : AnsiIndex[c] = i

color_of_fg_bits(b) ==
    IF b = OriginalFgBits THEN DefaultColor
    ELSE CHOOSE c \in Colors : WinApiBits[c] = b

color_of_bg_bits(b) ==
    IF b = OriginalBgBits THEN DefaultColor
    ELSE CHOOSE c \in Colors : WinApiBits[c] = b

\* ScreenManager: one attribute change, the request as the terminal reads it.
screen_write(screen, op, color, req) ==
    LET fg == IF req.kind = "ansi"
              THEN CASE req.seq[1] = "38" -> color_of_index(req.seq[3])
                     [] req.seq[1] = "48" -> screen.fg
                     [] OTHER             -> DefaultColor
              ELSE color_of_fg_bits(req.word % BgShift)
        bg == IF req.kind = "ansi"
              THEN CASE req.seq[1] = "48" -> color_of_index(req.seq[3])
                     [] req.seq[1] = "38" -> screen.bg
                     [] OTHER             -> DefaultColor
              ELSE color_of_bg_bits(req.word \div BgShift)
    IN  [screen EXCEPT !.fg = fg, !.bg = bg, !.out = req,
                       !.muts = Append(@, [op |-> op, color |-> color])]

(* --------------------------- construction ------------------------------ *)

\* shared::functions::get_module: the native implementation when the native
\* path is usable, else the escape-sequence one, else no backend.
get_module(winapi_impl, unix_impl) ==
    IF nativeAvail THEN winapi_impl
    ELSE IF ansiAvail THEN unix_impl
    ELSE "None"

\* Variant of new: the two cfg attributes are exchanged.
new_cfg_swapped(context) ==
    [ constructed    |-> TRUE,
      color          |-> IF platform # "windows"
                         THEN get_module("WinApi", "Ansi")
                         ELSE "Ansi",
      screen_manager |-> context.screen_manager ]

\* TerminalColor::new, color.rs:20-28.
new(context) ==
    [ constructed    |-> TRUE,
      color          |-> IF platform = "windows"
                         THEN get_module("WinApi", "Ansi")
                         ELSE "Ansi",
      screen_manager |-> context.screen_manager ]

\* color(context), color.rs:130-132: the boxed result of TerminalColor::new.
color(context) ==
    /\ ~facade.constructed
    /\ pc = "idle"
    /\ facade' = new(context)
    /\ selections' = selections + 1
    /\ UNCHANGED << env, sm, pc, frame, arg, calls, bcalls, returned, lastOk >>

(* ------------------------- facade operations --------------------------- *)

CallEntry(op, c, ret) == [op |-> op, color |-> c, ret |-> ret]

\* The unit-returning call finds no backend: color.rs:52, 80, 103 not taken.
ReturnAtOnce ==
    /\ returned' = returned + 1
    /\ UNCHANGED << pc, frame, arg, bcalls >>

\* terminal_color.<op>(color, self.screen_manager.clone()): control enters
\* the selected backend with the facade's own handle.
Forward(op, c, a) ==
    /\ pc' = "acquire"
    /\ frame' = [op |-> op, color |-> c,
                 handle |-> facade.screen_manager, backend |-> facade.color]
    /\ arg' = a
    /\ bcalls' = Append(bcalls, [op |-> op, color |-> c,
                                 handle |-> facade.screen_manager])
    /\ UNCHANGED returned

\* Variant of set_fg: the backend is moved out of the facade (Option::take).
set_fg_take(a) ==
    /\ facade.constructed
    /\ pc = "idle"
    /\ Len(calls) < MaxCalls
    /\ calls' = Append(calls, CallEntry("set_fg", ColorOf(a), 0))
    /\ IF facade.color # "None"
       THEN Forward("set_fg", ColorOf(a), a)
       ELSE ReturnAtOnce
    /\ facade' = [facade EXCEPT !.color = "None"]
    /\ UNCHANGED << env, selections, sm, lastOk >>

\* Variant of set_fg: the call goes to the backend's set_bg.
set_fg_as_bg(a) ==
    /\ facade.constructed
    /\ pc = "idle"
    /\ Len(calls) < MaxCalls
    /\ calls' = Append(calls, CallEntry("set_fg", ColorOf(a), 0))
    /\ IF facade.color # "None"
       THEN Forward("set_bg", ColorOf(a), a)
       ELSE ReturnAtOnce
    /\ UNCHANGED << env, facade, selections, sm, lastOk >>

\* TerminalColor::set_fg, color.rs:51-55.
set_fg(a) ==
    /\ facade.constructed
    /\ pc = "idle"
    /\ Len(calls) < MaxCalls
    /\ calls' = Append(calls, CallEntry("set_fg", ColorOf(a), 0))
    /\ IF facade.color # "None"
       THEN Forward("set_fg", ColorOf(a), a)
       ELSE ReturnAtOnce
    /\ UNCHANGED << env, facade, selections, sm, lastOk >>

\* Variant of set_bg: another ScreenManager's handle is passed on.
set_bg_other_handle(a) ==
    /\ facade.constructed
    /\ pc = "idle"
    /\ Len(calls) < MaxCalls
    /\ calls' = Append(calls, CallEntry("set_bg", ColorOf(a), 0))
    /\ IF facade.color # "None"
       THEN /\ pc' = "acquire"
            /\ \E h \in Handles \ {facade.screen_manager} :
                 /\ frame' = [op |-> "set_bg", color |-> ColorOf(a),
                              handle |-> h, backend |-> facade.color]
                 /\ bcalls' = Append(bcalls, [op |-> "set_bg",
                                  color |-> ColorOf(a), handle |-> h])
            /\ arg' = a
            /\ UNCHANGED returned
       ELSE ReturnAtOnce
    /\ UNCHANGED << env, facade, selections, sm, lastOk >>

\* TerminalColor::set_bg, color.rs:79-83.
set_bg(a) ==
    /\ facade.constructed
    /\ pc = "idle"
    /\ Len(calls) < MaxCalls
    /\ calls' = Append(calls, CallEntry("set_bg", ColorOf(a), 0))
    /\ IF facade.color # "None"
       THEN Forward("set_bg", ColorOf(a), a)
       ELSE ReturnAtOnce
    /\ UNCHANGED << env, facade, selections, sm, lastOk >>

\* Variant of reset: the backend is called without the Some(..) test.
reset_unguarded ==
    /\ facade.constructed
    /\ pc = "idle"
    /\ Len(calls) < MaxCalls
    /\ calls' = Append(calls, CallEntry("reset", "", 0))
    /\ Forward("reset", "", NoArg)
    /\ UNCHANGED << env, facade, selections, sm, lastOk >>

\* Variant of reset: the call returns without reaching the backend.
reset_dropped ==
    /\ facade.constructed
    /\ pc = "idle"
    /\ Len(calls) < MaxCalls
    /\ calls' = Append(calls, CallEntry("reset", "", 0))
    /\ ReturnAtOnce
    /\ UNCHANGED << env, facade, selections, sm, lastOk >>

\* TerminalColor::reset, color.rs:102-106.
reset ==
    /\ facade.constructed
    /\ pc = "idle"
    /\ Len(calls) < MaxCalls
    /\ calls' = Append(calls, CallEntry("reset", "", 0))
    /\ IF facade.color # "None"
       THEN Forward("reset", "", NoArg)
       ELSE ReturnAtOnce
    /\ UNCHANGED << env, facade, selections, sm, lastOk >>

\* Variant of get_available_color_count: the query takes the manager's lock
\* and keeps it.
get_available_color_count_locking ==
    /\ facade.constructed
    /\ pc = "idle"
    /\ Len(calls) < MaxCalls
    /\ calls' = Append(calls, CallEntry("count", "", color_count(TERM)))
    /\ returned' = returned + 1
    /\ sm' = [sm EXCEPT ![facade.screen_manager].lock = TRUE,
                        ![facade.screen_manager].acquired = @ + 1]
    /\ UNCHANGED << env, facade, selections, pc, frame, arg, bcalls, lastOk >>

\* TerminalColor::get_available_color_count, color.rs:109-123: Ok(tier).
get_available_color_count ==
    /\ facade.constructed
    /\ pc = "idle"
    /\ Len(calls) < MaxCalls
    /\ calls' = Append(calls, CallEntry("count", "", color_count(TERM)))
    /\ returned' = returned + 1
    /\ UNCHANGED << env, facade, selections, sm, pc, frame, arg, bcalls, lastOk >>

(* -------------------------- backend operation -------------------------- *)

\* screen_manager.lock(): the scoped exclusive lock of one operation.
backend_lock ==
    /\ pc = "acquire"
    /\ ~sm[frame.handle].lock
    /\ sm' = [sm EXCEPT ![frame.handle].lock = TRUE,
                        ![frame.handle].acquired = @ + 1]
    /\ pc' = "write"
    /\ UNCHANGED << env, facade, selections, frame, arg, calls, bcalls,
                    returned, lastOk >>

\* The attribute change, issued while the lock is held; the platform accepts
\* it or fails, and a failure is swallowed.
backend_write ==
    /\ pc = "write"
    /\ sm' = [sm EXCEPT ![frame.handle] =
                screen_write(@, frame.op, frame.color,
                    backend_request(frame.backend, frame.op, frame.color, @))]
    /\ \/ lastOk' = TRUE
       \/ lastOk' = FALSE
    /\ pc' = "release"
    /\ UNCHANGED << env, facade, selections, frame, arg, calls, bcalls, returned >>

\* Variant of backend_unlock: a failed attribute change returns early with
\* the lock still held.
backend_unlock_leaky ==
    /\ pc = "release"
    /\ sm' = IF lastOk
             THEN [sm EXCEPT ![frame.handle].lock = FALSE,
                             ![frame.handle].released = @ + 1]
             ELSE sm
    /\ pc' = "idle"
    /\ frame' = NoFrame
    /\ arg' = NoArg
    /\ returned' = returned + 1
    /\ UNCHANGED << env, facade, selections, calls, bcalls, lastOk >>

\* The guard goes out of scope and the operation returns to the caller.
backend_unlock ==
    /\ pc = "release"
    /\ sm' = [sm EXCEPT ![frame.handle].lock = FALSE,
                        ![frame.handle].released = @ + 1]
    /\ pc' = "idle"
    /\ frame' = NoFrame
    /\ arg' = NoArg
    /\ returned' = returned + 1
    /\ UNCHANGED << env, facade, selections, calls, bcalls, lastOk >>

(* --------------------------- specification ----------------------------- *)

\* The process before any facade exists: every ScreenManager untouched.
Start ==
    /\ facade = NoFacade
    /\ selections = 0
    /\ sm = [h \in Handles |-> InitScreen]
    /\ pc = "idle"
    /\ frame = NoFrame
    /\ arg = NoArg
    /\ calls = <<>>
    /\ bcalls = <<>>
    /\ returned = 0
    /\ lastOk = TRUE

\* Every platform and run-time capability; TERM unset, empty or
\* "xterm-256color".
Init ==
    /\ platform \in {"windows", "other"}
    /\ nativeAvail \in BOOLEAN
    /\ ansiAvail \in BOOLEAN
    /\ platform = "other" => (~nativeAvail /\ ansiAvail)
    /\ TERM \in {t \in TermValues : t.val \in {<<>>, Str_xterm \o Str_dash \o Marker}}
    /\ Start

\* Every TERM value of the model, on a platform other than Windows.
InitTerm ==
    /\ platform = "other"
    /\ nativeAvail = FALSE
    /\ ansiAvail = TRUE
    /\ TERM \in TermValues
    /\ Start

Next ==
    \/ \E context \in Contexts : color(context)
    \/ \E a \in ColorArgs : set_fg(a)
    \/ \E a \in ColorArgs : set_bg(a)
    \/ reset
    \/ get_available_color_count
    \/ backend_lock
    \/ backend_write
    \/ backend_unlock

Spec == Init /\ [][Next]_vars

SpecTerm == InitTerm /\ [][Next]_vars

(* ------------------------ vocabulary of the claims --------------------- *)

Ops(log) == [i \in 1..Len(log) |-> log[i].op]

IsStyling(e) == e.op \in {"set_fg", "set_bg", "reset"}

\* The styling calls of a log, as (operation, colour) pairs.
Styling(log) ==
    LET st == SelectSeq(log, IsStyling)
    IN  [i \in 1..Len(st) |-> [op |-> st[i].op, color |-> st[i].color]]

HasBackend == facade.constructed /\ facade.color \in Backends

Own == facade.screen_manager

\* Colour of the last call of kind op after the last reset, scanning the
\* log from its end; the terminal default when there is none.
RECURSIVE LastSinceReset(_, _)
LastSinceReset(log, op) ==
    IF log = <<>> THEN DefaultColor
    ELSE LET e == log[Len(log)]
         IN  IF e.op = "reset" THEN DefaultColor
             ELSE IF e.op = op THEN e.color
             ELSE LastSinceReset(SubSeq(log, 1, Len(log) - 1), op)

\* All spellings of a colour name: any letter case, up to MaxPad whitespace
\* characters on either side.
LetterForms(c) == {c} \cup {u \in DOMAIN UpperToLower : UpperToLower[u] = c}

CaseVariants(name) ==
    {v \in [1..Len(name) -> UNION {LetterForms(name[i]) : i \in 1..Len(name)}] :
        \A i \in 1..Len(name) : v[i] \in LetterForms(name[i])}

Paddings == UNION {[1..k -> Whitespace] : k \in 0..MaxPad}

Variants(name) ==
    {l \o v \o r : l \in Paddings, v \in CaseVariants(name), r \in Paddings}

\* The spellings of each named colour.
VariantsOf == [n \in NamedColors |-> Variants(ColorName[n])]

\* Every spelling of a name parses to that name's colour.
VariantsParseToName ==
    \A n \in NamedColors : \A v \in VariantsOf[n] : from_text(v) = n

\* The bytes of a TERM value hold the marker at some position.
BytesHoldMarker(bytes) ==
    \E i \in 1..Len(bytes) :
        \A k \in 1..Len(Marker) :
            /\ i + k - 1 <= Len(bytes)
            /\ bytes[i + k - 1] = Marker[k]

ValidUnicode(bytes) == \A i \in 1..Len(bytes) : bytes[i] # BadByte

CountEntries == {i \in 1..Len(calls) : calls[i].op = "count"}

(* ------------------------------- claims -------------------------------- *)

\* C1: on a facade with no backend, set_fg, set_bg and reset leave every
\* ScreenManager exactly as it was, never take a lock, never enter a backend,
\* and each call has returned.
C1_AbsentBackendIsNoOp ==
    (facade.constructed /\ facade.color = "None") =>
        /\ sm = [h \in Handles |-> InitScreen]
        /\ \A h \in Handles : ~sm[h].lock /\ sm[h].acquired = 0
        /\ bcalls = <<>>
        /\ pc = "idle"
        /\ returned = Len(calls)

C1_Witness ==
    /\ facade.constructed
    /\ facade.color = "None"
    /\ Len(calls) = MaxCalls
    /\ {"set_fg", "set_bg", "reset"} \subseteq {calls[i].op : i \in 1..Len(calls)}
    /\ returned = MaxCalls

\* C2: the query answers 256 exactly when TERM is set and its text holds
\* "256color"; it answers 8 for every other value: unset, empty, "xterm",
\* and any value that is not valid Unicode, which has no text (so also one
\* whose bytes hold the marker).  It never answers anything but a tier.
C2_MarkerDecidesTier ==
    \A i \in CountEntries :
        calls[i].ret =
            IF TERM.some /\ ValidUnicode(TERM.val) /\ BytesHoldMarker(TERM.val)
            THEN ExtendedTier
            ELSE BaseTier

C2_Witness ==
    /\ TERM.some
    /\ ~ValidUnicode(TERM.val)
    /\ BytesHoldMarker(TERM.val)
    /\ \E i \in CountEntries : calls[i].ret = BaseTier

\* C3: with a backend, after set_fg(c1); reset(); set_bg(c2) the facade's
\* ScreenManager has seen exactly those three mutations in that order, its
\* lock was taken and released three times, and at every moment holds do not
\* overlap and each hold covers at most one mutation.
C3_ThreeScopedMutations ==
    HasBackend =>
        /\ sm[Own].acquired - sm[Own].released = (IF sm[Own].lock THEN 1 ELSE 0)
        /\ Len(sm[Own].muts) \in {sm[Own].released, sm[Own].acquired}
        /\ (pc = "idle" /\ Ops(Styling(calls)) = <<"set_fg", "reset", "set_bg">>) =>
              /\ sm[Own].muts = Styling(calls)
              /\ sm[Own].acquired = 3
              /\ sm[Own].released = 3
              /\ ~sm[Own].lock

C3_Witness ==
    /\ HasBackend
    /\ pc = "idle"
    /\ Ops(calls) = <<"set_fg", "reset", "set_bg">>
    /\ Len(sm[Own].muts) = 3

\* C4: a ScreenManager changes its attributes only while the operation in
\* progress holds its lock, a lock is held only by the operation in progress,
\* and when a call returns, after a success or a failure, every lock is free.
C4_LockScopedToOperation ==
    [][ /\ \A h \in Handles :
              sm'[h].muts # sm[h].muts =>
                  /\ sm[h].lock /\ sm'[h].lock
                  /\ pc = "write" /\ frame.handle = h
        /\ \A h \in Handles :
              (sm[h].fg # sm'[h].fg \/ sm[h].bg # sm'[h].bg \/ sm[h].out # sm'[h].out)
                  => sm'[h].muts # sm[h].muts
        /\ \A h \in Handles :
              sm'[h].lock => (pc' \in {"write", "release"} /\ frame'.handle = h)
        /\ pc' = "idle" => \A h \in Handles : ~sm'[h].lock ]_vars

C4_Witness ==
    /\ pc = "idle"
    /\ returned > 0
    /\ ~lastOk
    /\ Len(sm[Own].muts) > 0
    /\ ~sm[Own].lock

\* C5: construction always yields a facade; on Windows the native backend
\* when it is available, otherwise the escape-sequence backend, and no
\* backend when none is usable.
C5_SelectionRule ==
    /\ (~facade.constructed /\ pc = "idle") =>
          \A context \in Contexts : ENABLED color(context)
    /\ facade.constructed =>
          /\ facade.screen_manager \in Handles
          /\ facade.color =
                IF platform = "windows" /\ nativeAvail THEN "WinApi"
                ELSE IF platform # "windows" \/ ansiAvail THEN "Ansi"
                ELSE "None"

C5_Witness ==
    /\ facade.constructed
    /\ platform = "windows"
    /\ nativeAvail
    /\ facade.color = "WinApi"

\* C6: once a facade exists, no step changes its backend or its handle, and
\* the selection has run exactly once.
C6_BackendFixed ==
    [][ facade.constructed =>
            /\ facade' = facade
            /\ selections = 1
            /\ selections' = 1 ]_vars

C6_Witness ==
    /\ HasBackend
    /\ selections = 1
    /\ pc = "idle"
    /\ {"set_fg", "set_bg", "reset"} \subseteq {calls[i].op : i \in 1..Len(calls)}

\* C7: set_fg with a colour parsed from any spelling of a colour name asks
\* of the ScreenManager exactly what set_fg with the named constant asks:
\* the same control sequence (escape-sequence backend) or the same attribute
\* word (native backend); and every case and whitespace variant of a name
\* parses to that name's colour.
C7_ParsedEqualsNamed ==
    /\ VariantsParseToName
    /\ \A n \in NamedColors :
          ( /\ pc = "release"
            /\ frame.op = "set_fg"
            /\ arg.kind = "text"
            /\ arg.text \in VariantsOf[n] ) =>
              /\ frame.color = n
              /\ sm[frame.handle].out =
                    backend_request(frame.backend, "set_fg", n, sm[frame.handle])
              /\ sm[frame.handle].fg = n

C7_Witness ==
    /\ pc = "release"
    /\ frame.op = "set_fg"
    /\ frame.backend = "Ansi"
    /\ arg = TextArg(<<" ", "r", "E", "D">>)
    /\ sm[frame.handle].out.seq = <<"38", "5", "9">>

\* C8: a get_available_color_count call changes nothing but the caller's
\* record of the result: every ScreenManager and lock, the facade and its
\* backend, the environment, and the backend call log stay as they were.
C8_QueryIsPure ==
    [][ ( /\ Len(calls') = Len(calls) + 1
          /\ calls'[Len(calls')].op = "count" ) =>
            /\ sm' = sm
            /\ facade' = facade
            /\ TERM' = TERM
            /\ bcalls' = bcalls
            /\ selections' = selections
            /\ pc' = "idle" ]_vars

C8_Witness ==
    /\ Len(calls) = MaxCalls
    /\ calls[1].op = "set_fg"
    /\ calls[2].op = "count"
    /\ calls[3].op = "set_bg"
    /\ HasBackend
    /\ pc = "idle"
    /\ Len(sm[Own].muts) = 2

\* C9: with a backend, the backend operations invoked are exactly the styling
\* calls made, one for one, each with the call's operation and colour and the
\* facade's own handle; when the call has returned it has made exactly one
\* mutation of that ScreenManager, and no other ScreenManager is touched.
C9_ForwardedOnceToOwnHandle ==
    HasBackend =>
        /\ Len(bcalls) = Len(Styling(calls))
        /\ \A i \in 1..Len(bcalls) :
              bcalls[i] = [op |-> Styling(calls)[i].op,
                           color |-> Styling(calls)[i].color,
                           handle |-> Own]
        /\ \A h \in Handles \ {Own} : sm[h] = InitScreen
        /\ pc = "idle" => sm[Own].muts = Styling(calls)
        /\ pc # "idle" =>
              /\ frame.handle = Own
              /\ frame.backend = facade.color
              /\ Len(sm[Own].muts) \in {Len(bcalls) - 1, Len(bcalls)}

C9_Witness ==
    /\ HasBackend
    /\ pc = "idle"
    /\ Len(bcalls) = MaxCalls
    /\ {"set_fg", "set_bg", "reset"} = {bcalls[i].op : i \in 1..Len(bcalls)}
    /\ Len(sm[Own].muts) = MaxCalls

\* C10: with a backend, between calls the attributes requested of the terminal
\* are a function of the latest calls only: the foreground is that of the
\* last set_fg since the last reset, the background that of the last set_bg
\* since the last reset, the default when there is none; and a call repeated
\* at once leaves what the first of the two left.
C10_LatestCallsDecide ==
    (HasBackend /\ pc = "idle") =>
        LET st == Styling(calls) IN
        /\ sm[Own].fg = LastSinceReset(st, "set_fg")
        /\ sm[Own].bg = LastSinceReset(st, "set_bg")
        /\ (Len(st) >= 2 /\ st[Len(st)] = st[Len(st) - 1]) =>
              /\ sm[Own].fg = LastSinceReset(SubSeq(st, 1, Len(st) - 1), "set_fg")
              /\ sm[Own].bg = LastSinceReset(SubSeq(st, 1, Len(st) - 1), "set_bg")

C10_Witness ==
    /\ HasBackend
    /\ pc = "idle"
    /\ Ops(calls) = <<"set_fg", "set_bg", "set_bg">>
    /\ calls[2] = calls[3]
    /\ calls[1].color # calls[2].color
    /\ sm[Own].fg = calls[1].color
    /\ sm[Own].bg = calls[3].color

====
